---- MODULE Spec2Model ----
(***************************************************************************)
(* Model of the autoscaling worker-pool dispatcher of                      *)
(* awx/main/dispatch/pool.py: PoolWorker / StatefulPoolWorker handles,     *)
(* WorkerPool and AutoscalePool.  The pool runs single-threaded, so every  *)
(* pool call is one atomic step; the forked worker processes run in        *)
(* parallel and take their own steps (dequeue, report completion, exit).   *)
(***************************************************************************)
EXTENDS Integers, Sequences, FiniteSets, TLC

VARIABLES
    min_workers,       \* WorkerPool.min_workers
    max_workers,       \* AutoscalePool.max_workers
    queue_size,        \* WorkerPool.queue_size
    target_set,        \* TRUE once init_workers has set self.target
    workers,           \* WorkerPool.workers: sequence of handle records
    scale_up_ct,       \* AutoscalePool.scale_up_ct
    worker_count_max,  \* AutoscalePool.worker_count_max
    uuid_ct,           \* number of uuid4() values generated by put()
    inputs,            \* message bodies the driving loop may submit
    nwrites,           \* number of write() calls made by the driving loop
    budget,            \* how many write() calls and scale-ups this run explores
    pend,              \* position of a cleanup() that is blocked in quit()
    pool_cls,          \* WorkerPool.pool_cls: the handle class of this pool
    high_water,        \* largest len(workers) since the last metrics flush (history)
    now,               \* time.time(), in whole ticks
    last               \* the pool call that just returned, with what it did

vars == <<min_workers, max_workers, queue_size, target_set, workers, scale_up_ct,
          worker_count_max, uuid_ct, inputs, nwrites, budget, pend, pool_cls,
          high_water, now, last>>

\* ---------------------------------------------------------------- bounds
\* write() calls and scale-ups explored in each configuration
SatWrites == 2
SatUps == 3
SoloWrites == 3
SoloUps == 2
ScenarioWrites == 2
ScenarioUps == 2
FloorWrites == 0
FloorUps == 4
PairWrites == 4
PairUps == 2
GrowWrites == 2
GrowUps == 2
OpsWrites == 3
OpsUps == 3
LoneWrites == 2
LoneUps == 2
AnyWrites == 3
AnyUps == 3
BaseWrites == 3
BaseUps == 3
BindWrites == 3
BindUps == 3
BindLoneWrites == 3
BindLoneUps == 1
WatchWrites == 3
WatchUps == 2
WatchLoneWrites == 2
WatchLoneUps == 1
CeilWrites == 3
CeilUps == 3
\* ticks of the clock
MaxTime == 2
\* uuid4() values generated, and the largest preferred_queue passed to write
\* (to an AutoscalePool, to a plain WorkerPool)
MaxUuids == 2
MaxPref == 1
BasePref == 3

\* ------------------------------------------------------- message bodies
\* key used by put() for a body that is not a dict (uuid = '?')
UnknownUuid == -1
\* uuid4() values are drawn above every uuid a submitted body carries
FreshBase == 100

\* the return value None, and a key that a dict does not have
None == -1

\* a message body.  id stands for its payload, uuid = 0 for "no uuid key",
\* errbacks is the list of failure-callback descriptors (by payload id),
\* task the task name as its dotted components (<<>> for no 'task' key or
\* the empty name), bind_kwargs the bindings the
\* body requests, kwargs the keys of body['kwargs'] that the pool has set,
\* worker_tasks the value of body['kwargs']['worker_tasks'], started and
\* age the stamps that cleanup() leaves on an entry of managed_tasks
Body(i, k, u, e) ==
    [id |-> i, kind |-> k, uuid |-> u, errbacks |-> e, task |-> <<>>,
     bind_kwargs |-> {}, kwargs |-> {}, worker_tasks |-> <<>>,
     started |-> None, age |-> None]

\* a dict body
Task(i, u, e) == Body(i, "dict", u, e)
\* a body that is not a dict (a plain string other than 'QUIT')
Str(i) == Body(i, "str", 0, <<>>)
\* the control message 'QUIT'
QUIT == Body(0, "QUIT", 0, <<>>)
\* None
NoTask == Body(0, "none", 0, <<>>)
\* an entry of an errbacks list: a task descriptor without a uuid
Errback(e) == Task(e, 0, <<>>)

IsDict(b) == b.kind = "dict"

\* ------------------------------------------------------------- helpers
Range(s) == {s[i] : i \in DOMAIN s}

RECURSIVE SetToSeq(_)
SetToSeq(S) ==
    IF S = {} THEN <<>>
    ELSE LET x == CHOOSE y \in S : \A z \in S : y <= z
         IN <<x>> \o SetToSeq(S \ {x})

\* ---------------------------------------------------------- PoolWorker
\* PoolWorker.__init__; forked is FALSE when start() failed (process.pid is None)
NewWorker(pid, started) ==
    [pid |-> pid, forked |-> started, alive |-> started, running |-> NoTask, queue |-> <<>>,
     finished |-> <<>>, managed |-> <<>>, messages_sent |-> 0, messages_finished |-> 0]

\* collections.OrderedDict: d[k] = b keeps the position of an existing key
HasKey(m, k) == \E i \in DOMAIN m : m[i].key = k
OrderedDictSet(m, k, b) ==
    IF HasKey(m, k)
    THEN [i \in DOMAIN m |-> IF m[i].key = k THEN [key |-> k, body |-> b] ELSE m[i]]
    ELSE Append(m, [key |-> k, body |-> b])
OrderedDictDel(m, k) == SelectSeq(m, LAMBDA e : e.key # k)
Keys(m) == {m[i].key : i \in DOMAIN m}

\* the loop "for uuid in finished" of calculate_managed_tasks
RECURSIVE DrainFinished(_, _, _)
DrainFinished(m, fin, n) ==
    IF fin = <<>> THEN [managed |-> m, n |-> n]
    ELSE IF HasKey(m, Head(fin))
         THEN DrainFinished(OrderedDictDel(m, Head(fin)), Tail(fin), n + 1)
         ELSE DrainFinished(m, Tail(fin), n)   \* KeyError: warning only

\* PoolWorker.track_managed_tasks: True for StatefulPoolWorker only
track_managed_tasks == pool_cls = "StatefulPoolWorker"

\* mutant: every drained completion is counted, duplicate or not
calculate_managed_tasks_counting_all(w) ==
    LET r == DrainFinished(w.managed, w.finished, w.messages_finished)
    IN [w EXCEPT !.managed = r.managed,
                 !.messages_finished = @ + Len(w.finished), !.finished = <<>>]

calculate_managed_tasks(w) ==
    IF ~track_managed_tasks THEN w
    ELSE LET r == DrainFinished(w.managed, w.finished, w.messages_finished)
         IN [w EXCEPT !.managed = r.managed, !.messages_finished = r.n, !.finished = <<>>]

\* busy / idle read the handle after reconciling it
busy(w) == Len(calculate_managed_tasks(w).managed) > 0
idle(w) == ~busy(w)

\* mutant: the handle answers as if it did not track its tasks
current_task_untracked(w) == NoTask

\* current_task of a reconciled handle
current_task(w) ==
    LET m == calculate_managed_tasks(w).managed
    IN IF track_managed_tasks /\ Len(m) > 0 THEN m[1].body ELSE NoTask

\* mutant: the message is counted as sent before the enqueue
put_counts_failed(w, body, ct) ==
    LET b1  == IF IsDict(body) /\ body.uuid = 0
               THEN [body EXCEPT !.uuid = FreshBase + ct + 1] ELSE body
        ct1 == IF IsDict(body) /\ body.uuid = 0 THEN ct + 1 ELSE ct
        key == IF IsDict(body) THEN b1.uuid ELSE UnknownUuid
        w1  == [(IF track_managed_tasks
                 THEN [w EXCEPT !.managed = OrderedDictSet(@, key, b1)] ELSE w)
                EXCEPT !.messages_sent = @ + 1]
    IN IF Len(w.queue) >= queue_size
       THEN [w |-> w1, ok |-> FALSE, body |-> b1, ct |-> ct1]
       ELSE [w |-> calculate_managed_tasks([w1 EXCEPT !.queue = Append(@, b1)]),
             ok |-> TRUE, body |-> b1, ct |-> ct1]

\* put(body): result handle, whether the enqueue succeeded (FALSE = QueueFull),
\* the body as put() left it (uuid attached) and the uuid4 counter
put(w, body, ct) ==
    LET b1  == IF IsDict(body) /\ body.uuid = 0
               THEN [body EXCEPT !.uuid = FreshBase + ct + 1] ELSE body
        ct1 == IF IsDict(body) /\ body.uuid = 0 THEN ct + 1 ELSE ct
        key == IF IsDict(body) THEN b1.uuid ELSE UnknownUuid
        w1  == IF track_managed_tasks
               THEN [w EXCEPT !.managed = OrderedDictSet(@, key, b1)] ELSE w
    IN IF Len(w.queue) >= queue_size
       THEN [w |-> w1, ok |-> FALSE, body |-> b1, ct |-> ct1]
       ELSE [w |-> calculate_managed_tasks(
                     [w1 EXCEPT !.queue = Append(@, b1),
                                !.messages_sent = @ + 1]),
             ok |-> TRUE, body |-> b1, ct |-> ct1]

\* mutant: the list is built whether or not the process is alive
orphaned_tasks_while_alive(w) ==
    IF ~track_managed_tasks THEN <<>>
    ELSE LET ct == current_task(w)
         IN (IF IsDict(ct) THEN [i \in DOMAIN ct.errbacks |-> Errback(ct.errbacks[i])] ELSE <<>>)
            \o SelectSeq(w.queue, LAMBDA b : b.kind # "QUIT")

\* mutant: the errbacks of the executing task are not collected
orphaned_tasks_queue_only(w) ==
    IF w.alive THEN <<>>
    ELSE SelectSeq(w.queue, LAMBDA b : b.kind # "QUIT")

\* orphaned_tasks of a handle whose process is not alive
orphaned_tasks(w) ==
    IF ~track_managed_tasks \/ w.alive THEN <<>>
    ELSE LET ct == current_task(w)
         IN (IF IsDict(ct) THEN [i \in DOMAIN ct.errbacks |-> Errback(ct.errbacks[i])] ELSE <<>>)
            \o SelectSeq(w.queue, LAMBDA b : b.kind # "QUIT")

\* ------------------------------------------------------------ the pool
\* The mutable state of the pool is threaded through the operators below as
\* a record P: target_set, workers, scale_up_ct, worker_count_max, uuid_ct, plus what the
\* call has done so far (reaps: job-store calls, recovered: orphans collected
\* per dead handle, scaled: handles scaled down, writes: one entry per
\* write() with its put attempts, raised: an exception left the call).
Pids(ws) == {ws[i].pid : i \in DOMAIN ws}
PidSeq(ws) == [i \in DOMAIN ws |-> ws[i].pid]
IdxOf(ws, pid) == CHOOSE i \in DOMAIN ws : ws[i].pid = pid
RemoveWorker(ws, pid) == SelectSeq(ws, LAMBDA w : w.pid # pid)

\* the process id of the next fork: handles are numbered in creation order
\* (an AutoscalePool has counted the scale-up before it forks)
MaxPid(ws) == IF ws = <<>> THEN 0 ELSE CHOOSE p \in Pids(ws) : \A q \in Pids(ws) : q <= p
NextPid(P) == IF P.scale_up_ct > MaxPid(P.workers) THEN P.scale_up_ct
              ELSE MaxPid(P.workers) + 1

\* mutant: a handle whose fork failed is not kept in the pool
WorkerPoolUp_drops_failed(P) ==
    IF ~P.target_set THEN {[P EXCEPT !.raised = TRUE]}
    ELSE {[P EXCEPT !.workers = Append(@, NewWorker(NextPid(P), TRUE)),
                    !.high_water = IF Len(P.workers) + 1 > @ THEN Len(P.workers) + 1 ELSE @],
          P}

\* WorkerPool.up: append a new handle and start its process.  Without
\* init_workers self.target is unset and the constructor call raises;
\* a failed fork is logged and leaves a handle that is not alive.
WorkerPoolUp(P) ==
    IF ~P.target_set THEN {[P EXCEPT !.raised = TRUE]}
    ELSE {[P EXCEPT !.workers = Append(@, NewWorker(NextPid(P), started)),
                    !.high_water = IF Len(P.workers) + 1 > @ THEN Len(P.workers) + 1 ELSE @]
          : started \in BOOLEAN}

\* mutant: the ceiling is tested one handle too late
full_one_late(P) == Len(P.workers) = max_workers + 1
full(P) == Len(P.workers) = max_workers

\* AutoscalePool.up
AutoscaleUp(P) ==
    IF full(P) THEN {P}
    ELSE {IF Q.raised THEN Q
          ELSE [Q EXCEPT !.worker_count_max =
                   IF Len(Q.workers) > @ THEN Len(Q.workers) ELSE @]
          : Q \in WorkerPoolUp([P EXCEPT !.scale_up_ct = @ + 1])}

\* mutant: only handles whose process is alive are asked whether they are busy
should_grow_live_only(P) ==
    IF Len(P.workers) < min_workers THEN [grow |-> TRUE, P |-> P]
    ELSE LET ws == [i \in DOMAIN P.workers |-> calculate_managed_tasks(P.workers[i])]
         IN [grow |-> \A i \in DOMAIN ws : ws[i].alive => Len(ws[i].managed) > 0,
             P |-> [P EXCEPT !.workers = ws]]

\* should_grow: the all([...]) reads busy of every handle, reconciling each
should_grow(P) ==
    IF Len(P.workers) < min_workers THEN [grow |-> TRUE, P |-> P]
    ELSE LET ws == [i \in DOMAIN P.workers |-> calculate_managed_tasks(P.workers[i])]
         IN [grow |-> \A i \in DOMAIN ws : Len(ws[i].managed) > 0,
             P |-> [P EXCEPT !.workers = ws]]

\* mutant: the preferred queue is not moved to the front
queue_order_ascending(n, preferred_queue) == SetToSeq(0..(n - 1))

\* sorted(range(n), key=lambda x: -1 if x == preferred_queue else x), 0-based
queue_order(n, preferred_queue) ==
    IF preferred_queue \in 0..(n - 1)
    THEN <<preferred_queue>> \o SetToSeq((0..(n - 1)) \ {preferred_queue})
    ELSE SetToSeq(0..(n - 1))

\* the loop of WorkerPool.write over queue_order
RECURSIVE TryPut(_, _, _, _)
TryPut(P, order, body, attempts) ==
    IF order = <<>> THEN [P |-> P, attempts |-> attempts, ret |-> None]
    ELSE LET i  == Head(order) + 1
             r  == put(P.workers[i], body, P.uuid_ct)
             P1 == [P EXCEPT !.workers[i] = r.w, !.uuid_ct = r.ct]
             a1 == Append(attempts, [pid |-> P.workers[i].pid, ok |-> r.ok])
         IN IF r.ok THEN [P |-> P1, attempts |-> a1, ret |-> Head(order)]
            ELSE TryPut(P1, Tail(order), r.body, a1)

WriteLog(body, attempts, n, branch) ==
    [id |-> body.id, attempts |-> attempts, n |-> n, branch |-> branch]

\* write_attempt_order as the loop builds it: one append of preferred_queue
\* for every put that failed
write_attempt_order(attempts, order, preferred_queue) ==
    [j \in 1..Len(attempts) |-> preferred_queue]

\* mutant: the preferred index is returned, whichever handle took the body
WorkerPoolWrite_returns_preferred(P, preferred_queue, body) ==
    LET order == queue_order(Len(P.workers), preferred_queue)
        r == TryPut(P, order, body, <<>>)
    IN [r.P EXCEPT !.writes = Append(@, WriteLog(body, r.attempts, Len(P.workers), "base")),
                   !.ret = IF r.ret = None THEN None ELSE preferred_queue,
                   !.errors = IF r.ret = None
                              THEN Append(@, write_attempt_order(r.attempts, order, preferred_queue))
                              ELSE @]

\* WorkerPool.write: the index of the handle that took the body, or None
\* after logging the attempted order
WorkerPoolWrite(P, preferred_queue, body) ==
    LET order == queue_order(Len(P.workers), preferred_queue)
        r == TryPut(P, order, body, <<>>)
    IN [r.P EXCEPT !.writes = Append(@, WriteLog(body, r.attempts, Len(P.workers), "base")),
                   !.ret = r.ret,
                   !.errors = IF r.ret = None
                              THEN Append(@, write_attempt_order(r.attempts, order, preferred_queue))
                              ELSE @]

\* AutoscalePool.write after the should_grow / up() step: the shuffled loop
\* claims the first handle that is not busy (t), having read busy of the
\* handles shuffled before it (V); with no such handle, WorkerPool.write.
\* A QueueFull raised by the put on t is caught by the outer except.
ShuffleDeliver(P, preferred_queue, body) ==
    LET n  == Len(P.workers)
        NB == {i \in 1..n : idle(P.workers[i])}
        rec(S) == [i \in 1..n |-> IF i \in S THEN calculate_managed_tasks(P.workers[i])
                                  ELSE P.workers[i]]
    IN IF NB = {}
       THEN {WorkerPoolWrite([P EXCEPT !.workers = rec(1..n)], preferred_queue, body)}
       ELSE {LET ws == rec(V \cup {t})
                 r  == put(ws[t], body, P.uuid_ct)
             IN [P EXCEPT !.workers = [ws EXCEPT ![t] = r.w],
                          !.uuid_ct = r.ct,
                          !.raised = ~r.ok,
                          !.writes = Append(@, WriteLog(body,
                                         <<[pid |-> ws[t].pid, ok |-> r.ok]>>, n, "idle"))]
             : t \in NB, V \in SUBSET ((1..n) \ NB)}

\* mutant: the exception leaves write()
except_Exception_reraised(Q) == Q

\* the "except Exception" of AutoscalePool.write: the exception is logged,
\* the call returns None
except_Exception(Q) ==
    IF Q.raised THEN [Q EXCEPT !.raised = FALSE, !.caught = @ + 1, !.ret = None] ELSE Q

\* mutant: write() never grows the pool
AutoscaleWrite_no_growth(P, preferred_queue, body) ==
    {except_Exception(Q) :
        Q \in UNION {ShuffleDeliver(U, preferred_queue, body) : U \in {should_grow(P).P}}}

\* worker.pid: None for a handle whose process was never started
worker_pid(w) == IF w.forked THEN w.pid ELSE None

\* list(worker.managed_tasks.keys())
KeyList(m) == [k \in DOMAIN m |-> m[k].key]

\* the loop of add_bind_kwargs: worker_tasks[worker.pid] = list(keys), each
\* handle reconciled first; handles with the same pid share one entry
RECURSIVE WorkerTasks(_, _)
WorkerTasks(ws, d) ==
    IF ws = <<>> THEN d
    ELSE WorkerTasks(Tail(ws),
             OrderedDictSet(d, worker_pid(Head(ws)),
                            KeyList(calculate_managed_tasks(Head(ws)).managed)))

\* add_bind_kwargs(body): bind_kwargs is popped, body['kwargs'] gets the
\* requested values (of dispatch_time only the presence is kept)
add_bind_kwargs(P, body) ==
    LET keys == body.bind_kwargs
        wt   == "worker_tasks" \in keys
    IN [P |-> IF wt THEN [P EXCEPT !.workers =
                            [i \in DOMAIN @ |-> calculate_managed_tasks(@[i])]]
              ELSE P,
        body |-> [body EXCEPT
                    !.bind_kwargs = {},
                    !.kwargs = @ \cup (keys \cap {"dispatch_time", "worker_tasks"}),
                    !.worker_tasks = IF wt THEN WorkerTasks(P.workers, <<>>) ELSE @]]

\* the body as add_bind_kwargs left it, kept as what the call bound
Bind(r) == [P |-> [r.P EXCEPT !.bound = r.body], body |-> r.body]

\* the try block of AutoscalePool.write
AutoscaleWriteTry(P, preferred_queue, body) ==
    LET ab  == IF IsDict(body) /\ body.bind_kwargs # {}
               THEN Bind(add_bind_kwargs(P, body)) ELSE [P |-> P, body |-> body]
        b   == ab.body
        sg  == should_grow(ab.P)
        ups == IF sg.grow THEN AutoscaleUp(sg.P) ELSE {sg.P}
    IN UNION {IF U.raised
              THEN {[U EXCEPT !.writes = Append(@, WriteLog(b, <<>>, Len(U.workers), "failed"))]}
              ELSE ShuffleDeliver(U, preferred_queue, b)
              : U \in ups}

\* AutoscalePool.write: every exception is caught and logged
AutoscaleWrite(P, preferred_queue, body) ==
    {except_Exception(Q) : Q \in AutoscaleWriteTry([P EXCEPT !.ret = None], preferred_queue, body)}

\* mutant: >= instead of >
should_scale_down_at_floor(w, P) == Len(w.managed) = 0 /\ Len(P.workers) >= min_workers

\* mutant: the handle is not asked whether it is idle
should_scale_down_busy_too(w, P) == Len(P.workers) > min_workers

\* the elif of cleanup: w.idle and len(self.workers) > self.min_workers
\* (w already reconciled by the read of idle)
should_scale_down(w, P) == Len(w.managed) = 0 /\ Len(P.workers) > min_workers

\* settings.TASK_MANAGER_TIMEOUT + settings.TASK_MANAGER_TIMEOUT_GRACE_PERIOD
task_manager_timeout == 1

\* the suffixes of the task names that the watchdog of cleanup() looks for
endings == {<<"tasks", "task_manager">>, <<"tasks", "dependency_manager">>,
            <<"tasks", "workflow_manager">>}
\* current_task_name.endswith(endings), on names made of whole components
endswith(name, sufs) ==
    \E suf \in sufs : /\ Len(name) >= Len(suf)
                       /\ SubSeq(name, Len(name) - Len(suf) + 1, Len(name)) = suf

\* mutant: the age is compared with >=
watchdog_at_timeout(P, i) ==
    LET w  == calculate_managed_tasks(P.workers[i])
        ct == current_task(w)
    IN IF ~(w.alive /\ IsDict(ct) /\ endswith(ct.task, endings)) THEN P
       ELSE LET started == IF ct.started = None THEN now ELSE ct.started
                age     == now - started
                w1 == [w EXCEPT !.managed = OrderedDictSet(@, ct.uuid,
                                     [ct EXCEPT !.started = started, !.age = age])]
            IN [P EXCEPT !.workers[i] = w1,
                         !.signalled = IF age >= task_manager_timeout
                                       THEN Append(@, w.pid) ELSE @]

\* the "if w.alive:" block of cleanup for the handle at position i: a
\* management task that is current is stamped with the time it was first
\* seen and with its age, and the process gets SIGUSR1 when the age exceeds
\* task_manager_timeout
watchdog(P, i) ==
    LET w  == calculate_managed_tasks(P.workers[i])
        ct == current_task(w)
    IN IF ~(w.alive /\ IsDict(ct) /\ endswith(ct.task, endings)) THEN P
       ELSE LET started == IF ct.started = None THEN now ELSE ct.started
                age     == now - started
                w1 == [w EXCEPT !.managed = OrderedDictSet(@, ct.uuid,
                                     [ct EXCEPT !.started = started, !.age = age])]
            IN [P EXCEPT !.workers[i] = w1,
                         !.signalled = IF age > task_manager_timeout
                                       THEN Append(@, w.pid) ELSE @]

\* the first loop of cleanup over self.workers[::], from the handles in rest
\* on.  status: "done", "raised" (an exception left cleanup) or "blocked"
\* (quit() waits for room in the inbound queue of handle at).
RECURSIVE CleanupPass(_, _, _)
CleanupPass(P, rest, orphaned) ==
    IF rest = <<>> THEN [P |-> P, orphaned |-> orphaned, status |-> "done", at |-> 0, rest |-> <<>>]
    ELSE
    LET pid == Head(rest)
        i   == IdxOf(P.workers, pid)
        w   == calculate_managed_tasks(P.workers[i])
        ct  == current_task(w)
        Pr  == [P EXCEPT !.workers[i] = w]
    IN IF ~w.alive
       THEN IF ct.kind \in {"str"}
            THEN \* w.current_task['uuid'] raises inside the try and again in its handler
                 [P |-> [Pr EXCEPT !.raised = TRUE], orphaned |-> orphaned,
                  status |-> "raised", at |-> pid, rest |-> Tail(rest)]
            ELSE CleanupPass(
                   [Pr EXCEPT !.workers = RemoveWorker(@, pid),
                              !.reaps = IF IsDict(ct) THEN Append(@, ct.uuid) ELSE @,
                              !.recovered = Append(@, [pid |-> pid,
                                                       task |-> ct,
                                                       orphans |-> orphaned_tasks(w)])],
                   Tail(rest), orphaned \o orphaned_tasks(w))
       ELSE IF should_scale_down(w, P)
       THEN IF Len(w.queue) >= queue_size
            THEN [P |-> Pr, orphaned |-> orphaned, status |-> "blocked",
                  at |-> pid, rest |-> Tail(rest)]
            ELSE CleanupPass(
                   [Pr EXCEPT !.workers = RemoveWorker(@, pid),
                              !.scaled = Append(@, [pid |-> pid, len |-> Len(P.workers)])],
                   Tail(rest), orphaned)
       ELSE CleanupPass(watchdog(Pr, i), Tail(rest), orphaned)

\* mutant: each orphan is put directly on the randomly chosen handle
RECURSIVE Redeliver_direct(_, _)
Redeliver_direct(P, orphaned) ==
    IF orphaned = <<>> \/ P.raised THEN {P}
    ELSE UNION {UNION {LET r == put(U.workers[idx + 1], Head(orphaned), U.uuid_ct)
                       IN Redeliver_direct(
                            [U EXCEPT !.workers[idx + 1] = r.w, !.uuid_ct = r.ct,
                                      !.raised = ~r.ok,
                                      !.writes = Append(@, WriteLog(Head(orphaned),
                                           <<[pid |-> U.workers[idx + 1].pid, ok |-> r.ok]>>,
                                           Len(U.workers), "direct"))],
                            Tail(orphaned))
                       : idx \in 0..(Len(U.workers) - 1)}
                : U \in IF Len(P.workers) = 0 THEN AutoscaleUp(P) ELSE {P}}

\* the second loop of cleanup: for m in orphaned
RECURSIVE Redeliver(_, _)
Redeliver(P, orphaned) ==
    IF orphaned = <<>> THEN {P}
    ELSE UNION {UNION {UNION {Redeliver(W, Tail(orphaned))
                              : W \in AutoscaleWrite(U, idx, Head(orphaned))}
                       : idx \in 0..(Len(U.workers) - 1)}
                : U \in IF Len(P.workers) = 0 THEN AutoscaleUp(P) ELSE {P}}

\* cleanup from the result of its first loop
CleanupFinish(r) ==
    IF r.status = "done" THEN Redeliver(r.P, r.orphaned) ELSE {r.P}

\* ------------------------------------------------------- state machine
Snapshot == [workers |-> workers, scale_up_ct |-> scale_up_ct,
             worker_count_max |-> worker_count_max, high_water |-> high_water]
NoSnapshot == [workers |-> <<>>, scale_up_ct |-> 0, worker_count_max |-> 0, high_water |-> 0]

NoReport == [scale_up_events |-> 0, active_task_count |-> 0, max_worker_count |-> 0]
NoCall == [op |-> "none", preferred_queue |-> 0, body |-> NoTask, pre |-> NoSnapshot,
           reaps |-> <<>>, recovered |-> <<>>, scaled |-> <<>>, writes |-> <<>>,
           raised |-> FALSE, resumed |-> FALSE, caught |-> 0, ret |-> None,
           errors |-> <<>>, signalled |-> <<>>, report |-> NoReport, read |-> <<>>,
           bound |-> NoTask]
NoPend == [active |-> FALSE, at |-> 0, rest |-> <<>>, orphaned |-> <<>>,
           reaps |-> <<>>, recovered |-> <<>>, scaled |-> <<>>, pre |-> NoSnapshot]

\* the pool as the current call finds it
Pool == [target_set |-> target_set, workers |-> workers, scale_up_ct |-> scale_up_ct,
         worker_count_max |-> worker_count_max, uuid_ct |-> uuid_ct,
         high_water |-> high_water,
         reaps |-> <<>>, recovered |-> <<>>, scaled |-> <<>>, writes |-> <<>>,
         raised |-> FALSE, caught |-> 0, ret |-> None, errors |-> <<>>,
         signalled |-> <<>>, report |-> NoReport, read |-> <<>>, bound |-> NoTask]

\* the call returns leaving the pool as Q
Return(Q, op, preferred_queue, body, pre, resumed) ==
    /\ Q.scale_up_ct <= budget.ups
    /\ Len(Q.workers) <= budget.ups
    /\ Q.uuid_ct <= MaxUuids
    /\ target_set' = Q.target_set
    /\ workers' = Q.workers
    /\ scale_up_ct' = Q.scale_up_ct
    /\ worker_count_max' = Q.worker_count_max
    /\ uuid_ct' = Q.uuid_ct
    /\ high_water' = Q.high_water
    /\ last' = [op |-> op, preferred_queue |-> preferred_queue, body |-> body, pre |-> pre,
                reaps |-> Q.reaps, recovered |-> Q.recovered, scaled |-> Q.scaled,
                writes |-> Q.writes, raised |-> Q.raised, resumed |-> resumed,
                caught |-> Q.caught, ret |-> Q.ret, errors |-> Q.errors,
                signalled |-> Q.signalled, report |-> Q.report, read |-> Q.read,
                bound |-> Q.bound]
    /\ UNCHANGED <<min_workers, max_workers, queue_size, inputs, budget, pool_cls, now>>

\* mutant: max_workers is taken as given
InitWith_unclamped(cfg) ==
    /\ min_workers = cfg.min
    /\ max_workers = cfg.max
    /\ queue_size = cfg.qs
    /\ inputs = cfg.inputs
    /\ budget = [writes |-> cfg.writes, ups |-> cfg.ups]
    /\ pool_cls = "StatefulPoolWorker"
    /\ high_water = 0
    /\ now = 0
    /\ target_set = FALSE
    /\ workers = <<>>
    /\ scale_up_ct = 0
    /\ worker_count_max = 0
    /\ uuid_ct = 0
    /\ nwrites = 0
    /\ pend = NoPend
    /\ last = NoCall

\* AutoscalePool.__init__(min_workers, queue_size, max_workers)
InitWith(cfg) ==
    /\ min_workers = cfg.min
    /\ max_workers = (IF cfg.min > cfg.max THEN cfg.min ELSE cfg.max)
    /\ queue_size = cfg.qs
    /\ inputs = cfg.inputs
    /\ budget = [writes |-> cfg.writes, ups |-> cfg.ups]
    /\ pool_cls = "StatefulPoolWorker"
    /\ high_water = 0
    /\ now = 0
    /\ target_set = FALSE
    /\ workers = <<>>
    /\ scale_up_ct = 0
    /\ worker_count_max = 0
    /\ uuid_ct = 0
    /\ nwrites = 0
    /\ pend = NoPend
    /\ last = NoCall

\* self.up() / self.write(): the pool's own class decides (an AutoscalePool
\* is the pool whose handles are StatefulPoolWorkers)
SelfUp(P) == IF track_managed_tasks THEN AutoscaleUp(P) ELSE WorkerPoolUp(P)
SelfWrite(P, preferred_queue, body) ==
    IF track_managed_tasks THEN AutoscaleWrite(P, preferred_queue, body)
    ELSE {WorkerPoolWrite(P, preferred_queue, body)}

\* WorkerPool.__init__(min_workers, queue_size)
InitBaseWith(cfg) ==
    /\ min_workers = cfg.min
    /\ max_workers = 0
    /\ queue_size = cfg.qs
    /\ inputs = cfg.inputs
    /\ budget = [writes |-> cfg.writes, ups |-> cfg.ups]
    /\ pool_cls = "PoolWorker"
    /\ high_water = 0
    /\ now = 0
    /\ target_set = FALSE
    /\ workers = <<>>
    /\ scale_up_ct = 0
    /\ worker_count_max = 0
    /\ uuid_ct = 0
    /\ nwrites = 0
    /\ pend = NoPend
    /\ last = NoCall

\* for idx in range(self.min_workers): self.up()
RECURSIVE UpTimes(_, _)
UpTimes(P, k) ==
    IF k = 0 THEN {P}
    ELSE UNION {UpTimes(Q, k - 1) : Q \in SelfUp(P)}

\* init_workers(target)
InitWorkers ==
    /\ ~target_set
    /\ ~pend.active
    /\ \E Q \in UpTimes([Pool EXCEPT !.target_set = TRUE], min_workers) :
          Return(Q, "init_workers", 0, NoTask, Snapshot, FALSE)
    /\ UNCHANGED <<nwrites, pend>>

\* up() called on the pool
Up ==
    /\ ~pend.active
    /\ \E Q \in SelfUp(Pool) : Return(Q, "up", 0, NoTask, Snapshot, FALSE)
    /\ UNCHANGED <<nwrites, pend>>

\* preferred_queue as the call used it: only WorkerPool.write reads it
Consulted(Q, preferred_queue) ==
    IF \E k \in DOMAIN Q.writes : Q.writes[k].branch = "base" THEN preferred_queue ELSE 0

\* write(preferred_queue, body) called by the driving loop
Write(preferred_queue, body) ==
    /\ ~pend.active
    /\ nwrites < budget.writes
    /\ nwrites' = nwrites + 1
    /\ \E Q \in SelfWrite(Pool, preferred_queue, body) :
          Return(Q, "write", Consulted(Q, preferred_queue), body, Snapshot, FALSE)
    /\ UNCHANGED pend

\* cleanup() either returns or stays blocked in quit()
CleanupFrom(r, pre, resumed) ==
    IF r.status = "blocked"
    THEN /\ pend' = [active |-> TRUE, at |-> r.at, rest |-> r.rest, orphaned |-> r.orphaned,
                     reaps |-> r.P.reaps, recovered |-> r.P.recovered,
                     scaled |-> r.P.scaled, pre |-> pre]
         /\ workers' = r.P.workers
         /\ last' = [NoCall EXCEPT !.op = "blocked"]
         /\ UNCHANGED <<min_workers, max_workers, queue_size, inputs, budget, target_set,
                        scale_up_ct, worker_count_max, uuid_ct, pool_cls, high_water, now>>
    ELSE /\ pend' = NoPend
         /\ \E Q \in CleanupFinish(r) : Return(Q, "cleanup", 0, NoTask, pre, resumed)

\* cleanup() called by the heartbeat
Cleanup ==
    /\ ~pend.active
    /\ CleanupFrom(CleanupPass(Pool, PidSeq(workers), <<>>), Snapshot, FALSE)
    /\ UNCHANGED nwrites

\* the blocked quit() of cleanup gets room in the queue: the QUIT is
\* enqueued, the handle removed, and the loop goes on
CleanupResume ==
    /\ pend.active
    /\ LET i == IdxOf(workers, pend.at)
       IN /\ Len(workers[i].queue) < queue_size
          /\ CleanupFrom(
               CleanupPass([Pool EXCEPT !.workers = RemoveWorker(@, pend.at),
                                        !.reaps = pend.reaps,
                                        !.recovered = pend.recovered,
                                        !.scaled = Append(pend.scaled,
                                             [pid |-> pend.at, len |-> Len(workers)])],
                           pend.rest, pend.orphaned),
               pend.pre, TRUE)
    /\ UNCHANGED nwrites

\* the loop of stop(): os.kill(worker.pid, signum) for each handle in turn.
\* The call raises for a handle that was never forked (pid is None) and may
\* raise for a process that has exited (it succeeds while the exited process
\* has not been waited for); the try encloses the loop, so the first failure
\* is logged and ends it.
RECURSIVE StopLoop(_, _)
StopLoop(P, rest) ==
    IF rest = <<>> THEN {P}
    ELSE LET w    == Head(rest)
             sent == StopLoop([P EXCEPT !.signalled = Append(@, w.pid)], Tail(rest))
             fail == {[P EXCEPT !.errors = Append(@, <<w.pid>>)]}
         IN IF ~w.forked THEN fail
            ELSE IF w.alive THEN sent
            ELSE sent \cup fail

\* stop(signum)
Stop ==
    /\ ~pend.active
    /\ \E Q \in StopLoop(Pool, workers) : Return(Q, "stop", 0, NoTask, Snapshot, FALSE)
    /\ UNCHANGED <<nwrites, pend>>

\* sum(len(w.managed_tasks) for w in self.workers)
RECURSIVE active_task_count(_)
active_task_count(ws) ==
    IF ws = <<>> THEN 0 ELSE Len(Head(ws).managed) + active_task_count(Tail(ws))

\* mutant: the high-water mark is not reset by the flush
metrics_flush_keeps_mark(P) ==
    [P EXCEPT !.report = [scale_up_events |-> P.scale_up_ct,
                          active_task_count |-> active_task_count(P.workers),
                          max_worker_count |-> P.worker_count_max],
              !.high_water = Len(P.workers)]

\* produce_subsystem_metrics: the three values set on metrics_object, then
\* the reset of worker_count_max
metrics_flush(P) ==
    [P EXCEPT !.report = [scale_up_events |-> P.scale_up_ct,
                          active_task_count |-> active_task_count(P.workers),
                          max_worker_count |-> P.worker_count_max],
              !.worker_count_max = Len(P.workers),
              !.high_water = Len(P.workers)]

\* produce_subsystem_metrics(metrics_object)
ProduceSubsystemMetrics ==
    /\ ~pend.active
    /\ Return(metrics_flush(Pool), "metrics", 0, NoTask, Snapshot, FALSE)
    /\ UNCHANGED <<nwrites, pend>>

\* the handle as a read of orphaned_tasks leaves it: a handle whose process
\* has exited is reconciled and its inbound queue is emptied
orphaned_tasks_read(w) ==
    IF ~track_managed_tasks \/ w.alive THEN w
    ELSE [calculate_managed_tasks(w) EXCEPT !.queue = <<>>]

\* a read of handle i's orphaned_tasks
OrphanedTasks(i) ==
    /\ ~pend.active
    /\ Return([Pool EXCEPT !.read = orphaned_tasks(workers[i]),
                           !.workers[i] = orphaned_tasks_read(workers[i])],
              "orphaned_tasks", i, NoTask, Snapshot, FALSE)
    /\ UNCHANGED <<nwrites, pend>>

\* ---- the forked worker processes (work loop of the dispatcher workers)
WorkerStep(i, w) ==
    /\ workers' = [workers EXCEPT ![i] = w]
    /\ last' = NoCall
    /\ UNCHANGED <<min_workers, max_workers, queue_size, inputs, budget, target_set,
                   scale_up_ct, worker_count_max, uuid_ct, nwrites, pend, pool_cls,
                   high_water, now>>

\* the process takes the next message from its inbound queue; 'QUIT' ends it
WorkerGet(i) ==
    /\ workers[i].alive
    /\ workers[i].running = NoTask
    /\ workers[i].queue # <<>>
    /\ LET m == Head(workers[i].queue)
       IN WorkerStep(i, [workers[i] EXCEPT !.queue = Tail(@),
                                           !.running = IF m.kind = "QUIT" THEN NoTask ELSE m,
                                           !.alive = (m.kind # "QUIT")])

\* the process finishes its message and reports the uuid of a dict body
WorkerFinish(i) ==
    /\ workers[i].alive
    /\ workers[i].running # NoTask
    /\ IsDict(workers[i].running) => Len(workers[i].finished) < queue_size
    /\ WorkerStep(i, [workers[i] EXCEPT !.running = NoTask,
                                        !.finished = IF track_managed_tasks
                                                        /\ IsDict(workers[i].running)
                                                     THEN Append(@, workers[i].running.uuid)
                                                     ELSE @])

\* the process exits (crash or kill)
WorkerDie(i) ==
    /\ workers[i].alive
    /\ WorkerStep(i, [workers[i] EXCEPT !.alive = FALSE])

\* time passes
Tick ==
    /\ now < MaxTime
    /\ now' = now + 1
    /\ last' = NoCall
    /\ UNCHANGED <<min_workers, max_workers, queue_size, target_set, workers, scale_up_ct,
                   worker_count_max, uuid_ct, inputs, nwrites, budget, pend, pool_cls,
                   high_water>>

Next ==
    \/ InitWorkers
    \/ Up
    \/ \E p \in 0..MaxPref, b \in inputs : Write(p, b)
    \/ Cleanup
    \/ CleanupResume
    \/ \E i \in DOMAIN workers : WorkerGet(i)
    \/ \E i \in DOMAIN workers : WorkerFinish(i)
    \/ \E i \in DOMAIN workers : WorkerDie(i)

\* the AutoscalePool with its remaining operations: stop, the metrics
\* flush, and reads of a handle's orphaned_tasks
NextOps ==
    \/ Next
    \/ Stop
    \/ ProduceSubsystemMetrics
    \/ \E i \in DOMAIN workers : OrphanedTasks(i)

\* the AutoscalePool while time passes
NextWatch ==
    \/ Next
    \/ Tick

\* a plain WorkerPool (handles are PoolWorkers): no cleanup, no metrics
NextBase ==
    \/ InitWorkers
    \/ Up
    \/ \E p \in 0..BasePref, b \in inputs : Write(p, b)
    \/ Stop
    \/ \E i \in DOMAIN workers : WorkerGet(i)
    \/ \E i \in DOMAIN workers : WorkerFinish(i)
    \/ \E i \in DOMAIN workers : WorkerDie(i)

\* ------------------------------------------------------ specifications
\* task messages: a plain one (submitting it again reuses its correlation
\* id), one with a failure callback, one submitted without a uuid
TaskA == Task(1, 1, <<>>)
TaskC == Task(3, 2, <<9>>)
TaskD == Task(4, 0, <<>>)

\* saturation and scale-down with one-slot queues
CfgSat == [min |-> 1, max |-> 2, qs |-> 1, inputs |-> {TaskA, TaskC},
           writes |-> SatWrites, ups |-> SatUps]
\* a single handle that takes every message
CfgSolo == [min |-> 1, max |-> 1, qs |-> 2, inputs |-> {TaskA, TaskC, TaskD},
            writes |-> SoloWrites, ups |-> SoloUps]
\* the end-to-end scenario: min_workers=1, max_workers=2, queue_size=10
CfgScenario == [min |-> 1, max |-> 2, qs |-> 10, inputs |-> {TaskA, TaskC},
                writes |-> ScenarioWrites, ups |-> ScenarioUps]
\* min_workers = 2 with up to 4 handles
CfgFloor == [min |-> 2, max |-> 4, qs |-> 1, inputs |-> {TaskA},
             writes |-> FloorWrites, ups |-> FloorUps]
\* a fixed pair of handles receiving the same correlation id repeatedly
CfgPair == [min |-> 2, max |-> 2, qs |-> 1, inputs |-> {TaskA},
            writes |-> PairWrites, ups |-> PairUps]

\* min_workers = 2 below a ceiling the pool does not reach
CfgGrow == [min |-> 2, max |-> 3, qs |-> 1, inputs |-> {TaskA},
            writes |-> GrowWrites, ups |-> GrowUps]

MainConfigs == {CfgSat, CfgSolo, CfgScenario, CfgFloor, CfgPair, CfgGrow}

Init == \E cfg \in MainConfigs : InitWith(cfg)
Spec == Init /\ [][Next]_vars

\* every operation of the AutoscalePool, on a pool of up to two handles and
\* on a single handle that takes every message
CfgOps == [min |-> 1, max |-> 2, qs |-> 1, inputs |-> {TaskA},
           writes |-> OpsWrites, ups |-> OpsUps]
CfgLone == [min |-> 1, max |-> 1, qs |-> 2, inputs |-> {TaskA, TaskC},
            writes |-> LoneWrites, ups |-> LoneUps]
InitOps == \E cfg \in {CfgOps, CfgLone} : InitWith(cfg)
SpecOps == InitOps /\ [][NextOps]_vars

\* bodies that are not dicts given to an AutoscalePool
StrE == Str(5)
CfgAny == [min |-> 1, max |-> 2, qs |-> 1, inputs |-> {TaskA, StrE},
           writes |-> AnyWrites, ups |-> AnyUps]
CfgAnyLone == [min |-> 1, max |-> 1, qs |-> 1, inputs |-> {TaskA, StrE},
               writes |-> AnyWrites, ups |-> AnyUps]
InitAny == \E cfg \in {CfgAny, CfgAnyLone} : InitWith(cfg)
SpecAny == InitAny /\ [][Next]_vars

\* a plain WorkerPool of up to three handles with one-slot queues
CfgBase == [min |-> 2, qs |-> 1, inputs |-> {TaskA},
            writes |-> BaseWrites, ups |-> BaseUps]
InitBase == InitBaseWith(CfgBase)
SpecBase == InitBase /\ [][NextBase]_vars

\* messages that request bindings, given to a pool of up to two handles
\* with one-slot queues and to a single handle that takes every message
TaskB == [Task(2, 3, <<>>) EXCEPT !.bind_kwargs = {"worker_tasks"}]
TaskT == [Task(6, 4, <<>>) EXCEPT !.bind_kwargs = {"dispatch_time"}]
CfgBind == [min |-> 1, max |-> 2, qs |-> 1, inputs |-> {TaskA, TaskB},
            writes |-> BindWrites, ups |-> BindUps]
CfgBindLone == [min |-> 1, max |-> 1, qs |-> 3, inputs |-> {TaskA, TaskC, TaskB, TaskT},
                writes |-> BindLoneWrites, ups |-> BindLoneUps]
InitBind == \E cfg \in {CfgBind, CfgBindLone} : InitWith(cfg)
SpecBind == InitBind /\ [][Next]_vars

\* management tasks watched over time: a task-manager run, and a task whose
\* name ends like one without the "tasks." before it
TaskM == [Task(7, 5, <<>>) EXCEPT
            !.task = <<"awx", "main", "scheduler", "tasks", "task_manager">>]
TaskN == [Task(8, 6, <<>>) EXCEPT !.task = <<"awx", "main", "task_manager">>]
CfgWatch == [min |-> 1, max |-> 2, qs |-> 1, inputs |-> {TaskM},
             writes |-> WatchWrites, ups |-> WatchUps]
CfgWatchLone == [min |-> 1, max |-> 1, qs |-> 2, inputs |-> {TaskM, TaskN},
                 writes |-> WatchLoneWrites, ups |-> WatchLoneUps]
InitWatch == \E cfg \in {CfgWatch, CfgWatchLone} : InitWith(cfg)
SpecWatch == InitWatch /\ [][NextWatch]_vars

\* a pool constructed with max_workers below min_workers, beside the pool
\* of up to two handles
CfgCeil == [min |-> 2, max |-> 1, qs |-> 1, inputs |-> {TaskA},
            writes |-> CeilWrites, ups |-> CeilUps]
InitCeil == \E cfg \in {CfgCeil, CfgOps} : InitWith(cfg)
SpecCeil == InitCeil /\ [][Next]_vars

\* ---------------------------------------------------------- properties
\* what the call that just returned found (last.pre) against what it left
PreW == last.pre.workers
PreOf(pid) == PreW[IdxOf(PreW, pid)]
AllBusy(ws) == \A i \in DOMAIN ws : busy(ws[i])
Count(q, id) == Cardinality({k \in DOMAIN q : q[k].id = id})

\* C1 (as claimed): once init_workers has run, every up() and cleanup()
\* returns with min_workers <= len(workers) <= max_workers.
C1_CapacityInvariant ==
    (target_set /\ last.op \in {"up", "cleanup"}) =>
        (min_workers <= Len(workers) /\ Len(workers) <= max_workers)

\* C1 (amended): every up() and cleanup() returns with len(workers) <=
\* max_workers; up() removes no handle; cleanup() keeps min_workers <=
\* len(workers) when that held before and the pass found no dead handle
\* (dead handles are removed regardless of the floor).
C1_CeilingAndFloor ==
    (target_set /\ last.op \in {"up", "cleanup"}) =>
        /\ Len(workers) <= max_workers
        /\ last.op = "up" => Len(workers) >= Len(PreW)
        /\ (last.op = "cleanup" /\ last.recovered = <<>> /\ ~last.raised
              /\ Len(PreW) >= min_workers) => Len(workers) >= min_workers

\* C1 witness: a cleanup() that scaled the pool down to the floor
C1_Witness ==
    /\ last.op = "cleanup" /\ last.scaled # <<>> /\ last.recovered = <<>>
    /\ Len(PreW) > min_workers /\ Len(workers) = min_workers

\* the handles on whose inbound queue the returned write() put its body
GotBody(w) ==
    LET q0 == IF w.pid \in Pids(PreW) THEN PreOf(w.pid).queue ELSE <<>>
    IN /\ Len(w.queue) = Len(q0) + 1
       /\ w.queue[Len(w.queue)].id = last.body.id
Receivers == {i \in DOMAIN workers : GotBody(workers[i])}
HasRoom(ws) == \E i \in DOMAIN ws : Len(ws[i].queue) < queue_size

\* C2 (as claimed): a write() made while some handle has room in its
\* inbound queue leaves the message on the inbound queue of exactly one handle.
C2_ExactlyOneDelivery ==
    (last.op = "write" /\ HasRoom(PreW)) => Cardinality(Receivers) = 1

\* C3 (as claimed): cleanup() removes every handle whose process has exited,
\* and every message other than QUIT that was in such a handle's inbound
\* queue is on the inbound queue of a remaining handle when cleanup() returns.
C3_NoQueuedWorkLost ==
    last.op = "cleanup" =>
        \A i \in DOMAIN PreW : ~PreW[i].alive =>
            /\ PreW[i].pid \notin Pids(workers)
            /\ \A k \in DOMAIN PreW[i].queue :
                  PreW[i].queue[k].kind # "QUIT" =>
                      \E j \in DOMAIN workers :
                          Count(workers[j].queue, PreW[i].queue[k].id) > 0

\* the case of C4: the process is gone, the pool sees three managed tasks,
\* the first is the dict task the process had dequeued and was executing,
\* the other two are still in the inbound queue
OrphanCase(w) ==
    LET m == calculate_managed_tasks(w).managed
    IN /\ ~w.alive
       /\ Len(m) = 3
       /\ IsDict(w.running) /\ w.running = m[1].body
       /\ w.queue = <<m[2].body, m[3].body>>

C5_ScaleDownRespectsFloor ==
    last.op = "cleanup" =>
        /\ ((\A i \in DOMAIN PreW : PreW[i].alive /\ idle(PreW[i]))
              /\ Len(PreW) > min_workers /\ last.recovered = <<>>)
             => Len(workers) = min_workers
        /\ \A k \in DOMAIN last.scaled : last.scaled[k].len > min_workers

C5_Witness ==
    /\ last.op = "cleanup" /\ min_workers = 2 /\ Len(PreW) = 4
    /\ \A i \in DOMAIN PreW : PreW[i].alive /\ idle(PreW[i])
    /\ Len(workers) = 2 /\ Len(last.scaled) = 2

\* C6: a write() that finds at least one handle, every handle busy and
\* len(workers) < max_workers creates exactly one handle, makes its only put
\* on that new handle, and leaves the message on its inbound queue.
C6_GrowthOnSaturation ==
    (last.op = "write" /\ Len(PreW) > 0 /\ AllBusy(PreW) /\ Len(PreW) < max_workers) =>
        /\ Len(workers) = Len(PreW) + 1
        /\ scale_up_ct = last.pre.scale_up_ct + 1
        /\ PidSeq(SubSeq(workers, 1, Len(PreW))) = PidSeq(PreW)
        /\ LET new == workers[Len(workers)]
           IN /\ new.pid \notin Pids(PreW)
              /\ Len(last.writes) = 1
              /\ last.writes[1].attempts = <<[pid |-> new.pid, ok |-> TRUE]>>
              /\ Len(new.queue) = 1 /\ new.queue[1].id = last.body.id
              /\ Receivers = {Len(workers)}

C6_Witness ==
    /\ last.op = "write" /\ Len(PreW) > 0 /\ AllBusy(PreW) /\ Len(PreW) < max_workers
    /\ Len(workers) = 2

\* position in the pool (as write() found it) of the handle of the j-th put
AttemptIdx(j) == IdxOf(PreW, last.writes[1].attempts[j].pid)

\* C7: a write() that finds len(workers) = max_workers and every handle busy
\* creates no handle, leaves scale_up_ct and worker_count_max unchanged, and
\* tries the handle at preferred_queue first, then the others in ascending
\* index order, stopping at the first handle whose queue has room.
C7_SaturatedAndFull ==
    (last.op = "write" /\ Len(PreW) = max_workers /\ AllBusy(PreW)) =>
        /\ PidSeq(workers) = PidSeq(PreW)
        /\ scale_up_ct = last.pre.scale_up_ct
        /\ worker_count_max = last.pre.worker_count_max
        /\ Len(last.writes) = 1
        /\ LET a == last.writes[1].attempts
               n == Len(PreW)
               p == last.preferred_queue + 1
           IN /\ Len(a) \in 1..n
              /\ p \in 1..n => AttemptIdx(1) = p
              /\ \A j1, j2 \in DOMAIN a :
                    (j1 < j2 /\ AttemptIdx(j1) # p /\ AttemptIdx(j2) # p)
                        => AttemptIdx(j1) < AttemptIdx(j2)
              /\ \A j \in DOMAIN a : j > 1 => AttemptIdx(j) # p
              /\ \A i \in 1..n :
                    (\A j \in DOMAIN a : AttemptIdx(j) # i) =>
                        /\ i # p
                        /\ \A j \in DOMAIN a : AttemptIdx(j) = p \/ AttemptIdx(j) < i
              /\ \A j \in DOMAIN a :
                    a[j].ok = (Len(PreW[AttemptIdx(j)].queue) < queue_size)
              /\ \A j \in DOMAIN a : a[j].ok => j = Len(a)
              /\ (~a[Len(a)].ok) => Len(a) = n

C7_Witness ==
    /\ last.op = "write" /\ Len(PreW) = max_workers /\ AllBusy(PreW)
    /\ Len(PreW) = 2 /\ last.preferred_queue = 1
    /\ Len(last.writes[1].attempts) = 2 /\ last.writes[1].attempts[2].ok

\* C8: when cleanup() reconciles a handle, each correlation id found in the
\* completion queue is removed from managed_tasks once and counted once in
\* messages_finished, however often it was reported; a completion for an id
\* that is not (or no longer) in managed_tasks changes nothing and raises nothing.
C8_DuplicateCompletions ==
    (last.op = "cleanup" /\ ~last.resumed /\ last.writes = <<>>) =>
        /\ ~last.raised
        /\ \A i \in DOMAIN workers :
              LET w == workers[i]
                  p == PreOf(w.pid)
              IN /\ w.managed = SelectSeq(p.managed, LAMBDA e : e.key \notin Range(p.finished))
                 /\ w.messages_finished =
                       p.messages_finished + Cardinality(Keys(p.managed) \cap Range(p.finished))
                 /\ w.finished = <<>>

C8_Witness ==
    /\ last.op = "cleanup" /\ ~last.resumed /\ last.writes = <<>>
    /\ \E i \in DOMAIN workers :
          LET p == PreOf(workers[i].pid)
          IN /\ Len(p.finished) = 2 /\ p.finished[1] = p.finished[2]
             /\ p.finished[1] \in Keys(p.managed)
             /\ workers[i].messages_finished = p.messages_finished + 1

\* the end-to-end scenario of C9
InScenario == min_workers = 1 /\ max_workers = 2 /\ queue_size = 10 /\ target_set
FirstWrite == InScenario /\ last.op = "write" /\ nwrites = 1
SecondWrite ==
    /\ InScenario /\ last.op = "write" /\ nwrites = 2
    /\ Len(PreW) = 1 /\ busy(PreW[1])
KillCleanup ==
    /\ InScenario /\ last.op = "cleanup" /\ nwrites = 2
    /\ Len(PreW) = 2 /\ PreW[1].pid = 1 /\ PreW[2].pid = 2
    /\ ~PreW[1].alive /\ PreW[2].alive
    /\ IsDict(PreW[1].running)
    /\ Len(calculate_managed_tasks(PreW[1]).managed) = 1
    /\ calculate_managed_tasks(PreW[1]).managed[1].body = PreW[1].running
    /\ PreW[1].queue = <<>>
SecondWriteGrows ==
    SecondWrite => /\ Len(workers) = 2
                   /\ workers[2].pid \notin Pids(PreW)
                   /\ Receivers = {2}

Grew == Len(workers) = Len(PreW) + 1
GrowthObserved == last.op = "write" /\ target_set /\ Len(PreW) < max_workers

\* C10 (as claimed): should_grow is true exactly when len(workers) <
\* min_workers or every live handle is busy (dead handles do not count).
C10_LiveHandlesOnly ==
    GrowthObserved =>
        (Grew <=> (Len(PreW) < min_workers
                     \/ \A i \in DOMAIN PreW : PreW[i].alive => busy(PreW[i])))

\* C10 (amended): should_grow is true exactly when len(workers) <
\* min_workers or every handle in the pool, alive or not, is busy; an idle
\* handle whose process has exited keeps should_grow false.
C10_ShouldGrow ==
    GrowthObserved =>
        (Grew <=> (Len(PreW) < min_workers \/ AllBusy(PreW)))

C10_Witness ==
    /\ GrowthObserved /\ ~Grew /\ Len(PreW) >= min_workers
    /\ \E i \in DOMAIN PreW : PreW[i].alive
    /\ \A i \in DOMAIN PreW : PreW[i].alive => busy(PreW[i])
    /\ \E i \in DOMAIN PreW : ~PreW[i].alive /\ idle(PreW[i])

\* a WorkerPool.write call made directly on a plain WorkerPool
BaseWriteCall == pool_cls = "PoolWorker" /\ last.op = "write"
\* the order in which the claim says the handles are tried: the preferred
\* index, then every other index ascending (1-based positions)
ClaimedOrder(n, p) ==
    (IF p \in 1..n THEN <<p>> ELSE <<>>) \o SetToSeq((1..n) \ {p})
Untouched(i) == workers[i].queue = PreW[i].queue

\* C11: WorkerPool.write tries the handle at preferred_queue first and then
\* every other handle in ascending index order, passing over the handles
\* whose inbound queue is full; the message is appended to the inbound queue
\* of the first handle with room and to no other, and that handle's index
\* is returned.
C11_BaseWriteOrder ==
    BaseWriteCall =>
        LET a == last.writes[1].attempts
            n == Len(PreW)
            o == ClaimedOrder(n, last.preferred_queue + 1)
        IN /\ PidSeq(workers) = PidSeq(PreW)
           /\ Len(a) <= n
           /\ \A j \in DOMAIN a :
                 /\ AttemptIdx(j) = o[j]
                 /\ a[j].ok = (Len(PreW[o[j]].queue) < queue_size)
                 /\ a[j].ok => j = Len(a)
           /\ \A j \in 1..n : j > Len(a) => a[Len(a)].ok
           /\ \A j \in 1..n :
                 IF j <= Len(a) /\ a[j].ok
                 THEN /\ Len(workers[o[j]].queue) = Len(PreW[o[j]].queue) + 1
                      /\ SubSeq(workers[o[j]].queue, 1, Len(PreW[o[j]].queue)) = PreW[o[j]].queue
                      /\ workers[o[j]].queue[Len(workers[o[j]].queue)].id = last.body.id
                      /\ last.ret = o[j] - 1
                 ELSE Untouched(o[j])

\* C11 witness: three handles, preferred index 1; the queues of handles 1
\* and 0 are full and handle 2 takes the message
C11_Witness ==
    /\ BaseWriteCall /\ Len(PreW) = 3 /\ last.preferred_queue = 1
    /\ Len(last.writes[1].attempts) = 3 /\ last.ret = 2
    /\ Len(workers[3].queue) = 1 /\ Untouched(1) /\ Untouched(2)

\* C12 (as claimed): when every inbound queue is full, WorkerPool.write
\* returns None without raising, leaves every inbound queue as it was, and
\* logs one error that lists the handle indices in the order it tried them.
C12_AllFullLogged ==
    (BaseWriteCall /\ Len(PreW) > 0 /\ ~HasRoom(PreW)) =>
        /\ last.ret = None
        /\ ~last.raised
        /\ \A i \in DOMAIN workers : Untouched(i)
        /\ Len(last.errors) = 1
        /\ last.errors[1] = [j \in DOMAIN last.writes[1].attempts |-> AttemptIdx(j) - 1]

\* a write() call on the AutoscalePool
AutoscaleWriteCall == pool_cls = "StatefulPoolWorker" /\ last.op = "write"

C14_CleanupNeverRaises ==
    last.op = "cleanup" => ~last.raised

\* C15 (as claimed): stop(signum) sends the signal to the process of every
\* live handle; a failure for one handle is logged and the handles after it
\* in the list are still signalled.
C15_StopReachesEveryLiveHandle ==
    last.op = "stop" =>
        \A i \in DOMAIN PreW : PreW[i].alive => PreW[i].pid \in Range(last.signalled)

\* C16 (as claimed): quit() enqueues 'QUIT' and returns at once whatever the
\* inbound queue holds, so no cleanup() is ever left waiting inside quit().
C16_QuitNeverBlocks ==
    ~pend.active

\* the handles that up() / cleanup() found with a process that never started
Unforked(ws) == {i \in DOMAIN ws : ~ws[i].forked}

\* C17 (as claimed): when the fork fails inside up(), no exception leaves
\* up() and the handle whose process could not be started is not in the pool.
C17_FailedHandleNotCounted ==
    (target_set /\ last.op = "up") =>
        /\ ~last.raised
        /\ Unforked(workers) \subseteq DOMAIN PreW

\* C17 (amended): when the fork fails inside up(), no exception leaves up()
\* and the new handle is appended and counted in len(workers) like any
\* other, not alive and with nothing assigned; while it is in the pool and
\* len(workers) >= min_workers a write() does not grow the pool on its
\* account; the next cleanup() removes it.
C17_FailedHandleCounted ==
    /\ (target_set /\ last.op = "up") =>
          /\ ~last.raised
          /\ Len(workers) = IF Len(PreW) = max_workers THEN Len(PreW) ELSE Len(PreW) + 1
          /\ SubSeq(workers, 1, Len(PreW)) = PreW
          /\ \A i \in DOMAIN workers : ~workers[i].forked =>
                 ~workers[i].alive /\ (i > Len(PreW) => workers[i].managed = <<>>)
    /\ (GrowthObserved /\ Len(PreW) >= min_workers
           /\ \E i \in Unforked(PreW) : idle(PreW[i])) => ~Grew
    /\ (last.op = "cleanup" /\ ~last.raised) =>
          \A i \in Unforked(PreW) : PreW[i].pid \notin Pids(workers)

\* C17 witness: an up() whose fork failed left the pool one handle longer
C17_Witness ==
    /\ target_set /\ last.op = "up" /\ Len(workers) = Len(PreW) + 1
    /\ ~workers[Len(workers)].forked /\ Len(workers) > min_workers

\* a read of a handle's orphaned_tasks, and the handle as the read found it
OrphanedRead == last.op = "orphaned_tasks"
ReadHandle == PreW[last.preferred_queue]
\* managed_tasks of a handle once the completions it holds are reconciled
Reconciled(w) == SelectSeq(w.managed, LAMBDA e : e.key \notin Range(w.finished))

\* C18: orphaned_tasks of a stateful handle is empty while the process is
\* alive; once it has exited it is the errbacks of the task at the front of
\* managed_tasks (when that is a dict) followed by the messages of the
\* inbound queue in FIFO order without 'QUIT'.
C18_OrphanedTasks ==
    OrphanedRead =>
        LET w == ReadHandle
            m == Reconciled(w)
            front == IF Len(m) > 0 /\ IsDict(m[1].body)
                     THEN [e \in DOMAIN m[1].body.errbacks |-> Errback(m[1].body.errbacks[e])]
                     ELSE <<>>
        IN IF w.alive THEN last.read = <<>>
           ELSE last.read = front \o SelectSeq(w.queue, LAMBDA b : b.kind # "QUIT")

\* C18 witness: a dead handle whose front task has an errback and whose
\* inbound queue holds a message
C18_Witness ==
    /\ OrphanedRead /\ ~ReadHandle.alive
    /\ IsDict(ReadHandle.running) /\ ReadHandle.running.errbacks = <<9>>
    /\ Len(ReadHandle.queue) = 1 /\ ReadHandle.queue[1] # ReadHandle.running
    /\ last.read = <<Errback(9), ReadHandle.queue[1]>>

\* C19: every metrics flush reports as max_worker_count the largest
\* len(workers) since the previous flush (since construction for the first)
\* and leaves worker_count_max = len(workers); in every state
\* worker_count_max >= len(workers).
C19_HighWaterMark ==
    /\ worker_count_max >= Len(workers)
    /\ last.op = "metrics" =>
          /\ last.report.max_worker_count = last.pre.high_water
          /\ worker_count_max = Len(workers)

\* C19 witness: the pool had grown to two handles and shrunk to one before
\* the flush
C19_Witness ==
    /\ last.op = "metrics" /\ last.report.max_worker_count = 2
    /\ Len(workers) = 1 /\ worker_count_max = 1

\* C20 (as claimed): in every state, for every handle with a live process,
\* the first entry of managed_tasks (completions reconciled) is the message
\* the process is executing or, when it executes nothing, the head of the
\* inbound queue, and every other entry is a message in the inbound queue.
C20_ManagedOrder ==
    \A i \in DOMAIN workers :
        LET w == workers[i]
            m == Reconciled(w)
        IN (w.alive /\ Len(m) > 0) =>
              /\ IF w.running # NoTask THEN m[1].body = w.running
                 ELSE w.queue # <<>> /\ m[1].body = Head(w.queue)
              /\ \A k \in 2..Len(m) : m[k].body \in Range(w.queue)

\* a write() on the AutoscalePool of a message that requests worker_tasks
BindCall == AutoscaleWriteCall /\ "worker_tasks" \in last.body.bind_kwargs

\* C21 (as claimed): the worker_tasks value injected into a written message
\* has, for every handle in the pool, an entry from the handle's process id
\* to the correlation ids of its managed_tasks (completions reconciled) in
\* assignment order, taken before the message is assigned, and nothing
\* else; the message is delivered with that value.
C21_WorkerTasksSnapshot ==
    BindCall =>
        LET wt == last.bound.worker_tasks
        IN /\ "worker_tasks" \in last.bound.kwargs
           /\ \A i \in DOMAIN PreW : \E k \in DOMAIN wt :
                 /\ wt[k].key = worker_pid(PreW[i])
                 /\ wt[k].body = KeyList(Reconciled(PreW[i]))
           /\ \A k \in DOMAIN wt : \E i \in DOMAIN PreW : wt[k].key = worker_pid(PreW[i])
           /\ \A i \in Receivers : workers[i].queue[Len(workers[i].queue)] = last.bound

\* a cleanup() that ran through in one go and redelivered exactly one orphan
OneOrphan ==
    /\ last.op = "cleanup" /\ ~last.resumed /\ ~last.raised /\ target_set
    /\ Len(last.writes) = 1
\* the handles the first loop of that cleanup() left in the pool, reconciled
Removed == {last.recovered[k].pid : k \in DOMAIN last.recovered}
               \cup {last.scaled[k].pid : k \in DOMAIN last.scaled}
Survivors ==
    LET keep == SelectSeq(PreW, LAMBDA w : w.pid \notin Removed)
    IN [i \in DOMAIN keep |-> calculate_managed_tasks(keep[i])]
\* the handles that redelivery created
Created == {i \in DOMAIN workers : workers[i].pid \notin Pids(PreW)}

\* C22 (as claimed): apart from the single forced up() when the pool is
\* empty, redelivering an orphan creates no handle and is one direct put on
\* one handle.
C22_RedeliveryDirect ==
    OneOrphan =>
        /\ Cardinality(Created) = IF Survivors = <<>> THEN 1 ELSE 0
        /\ Len(last.writes[1].attempts) = 1

\* C22 (amended): an orphan is redelivered by the pool's own write(): when
\* handles are left, one handle is created exactly when len(workers) <
\* min_workers or every handle left is busy, and len(workers) < max_workers;
\* the orphan is put on a handle that is not busy when there is one (the
\* new handle included), otherwise on the handles in write()'s fallback
\* order until one has room.
C22_RedeliveryThroughWrite ==
    (OneOrphan /\ Survivors # <<>>) =>
        LET S    == Survivors
            a    == last.writes[1].attempts
            grow == (Len(S) < min_workers \/ AllBusy(S)) /\ Len(S) < max_workers
            free == {S[i].pid : i \in {j \in DOMAIN S : idle(S[j])}}
                       \cup {workers[i].pid : i \in Created}
        IN /\ Cardinality(Created) = IF grow THEN 1 ELSE 0
           /\ PidSeq(SubSeq(workers, 1, Len(S))) = PidSeq(S)
           /\ IF free # {}
              THEN Len(a) = 1 /\ a[1].pid \in free
              ELSE /\ Len(a) \in 1..Len(S)
                   /\ \A j \in DOMAIN a : a[j].ok => j = Len(a)
                   /\ ~a[Len(a)].ok => Len(a) = Len(S)

\* C22 witness: the only handle left was busy, so redelivering the errback
\* of the task that died created a handle, and the errback went to it
C22_Witness ==
    /\ OneOrphan /\ Len(Survivors) = 1 /\ busy(Survivors[1])
    /\ Cardinality(Created) = 1 /\ Len(workers) = 2
    /\ last.writes[1].attempts = <<[pid |-> workers[2].pid, ok |-> TRUE]>>
    /\ Len(workers[2].queue) = 1 /\ workers[2].queue[1].id = last.writes[1].id

\* a task name that ends with one of the management-task suffixes
ManagementTask(name) ==
    /\ Len(name) >= 2
    /\ name[Len(name) - 1] = "tasks"
    /\ name[Len(name)] \in {"task_manager", "dependency_manager", "workflow_manager"}
\* the handles that the cleanup() which just ran through in one go signalled
Signalled == IF last.op = "cleanup" /\ ~last.resumed THEN Range(last.signalled) ELSE {}

\* C23: cleanup() sends SIGUSR1 to a handle only if the handle is alive, its
\* current task is a dict whose task name ends with a management-task
\* suffix, and more than task_manager_timeout has passed since the stamp
\* that the first cleanup() to see that task as current left on it (a
\* management task that is current and unstamped is stamped with the time
\* of the pass, and no stamp is changed afterwards); the handle stays in
\* the pool, keeps the ids of its managed_tasks, and gets no others unless
\* the same pass redelivers an orphan.
C23_Watchdog ==
    /\ (last.op = "cleanup" /\ ~last.resumed /\ last.writes = <<>>) =>
          \A i \in DOMAIN workers :
              LET m == Reconciled(PreOf(workers[i].pid))
                  c == workers[i].managed
              IN (workers[i].alive /\ Len(m) > 0) =>
                    c[1].body.started =
                        IF IsDict(m[1].body) /\ ManagementTask(m[1].body.task)
                              /\ m[1].body.started = None
                        THEN now ELSE m[1].body.started
    /\ \A p \in Signalled :
          /\ p \in Pids(PreW) /\ p \in Pids(workers)
          /\ LET w  == PreOf(p)
                 m  == Reconciled(w)
                 w2 == workers[IdxOf(workers, p)]
             IN /\ w.alive
                /\ Len(m) > 0 /\ IsDict(m[1].body) /\ ManagementTask(m[1].body.task)
                /\ m[1].body.started # None
                /\ m[1].body.started <= now
                /\ now - m[1].body.started > task_manager_timeout
                /\ Keys(m) \subseteq Keys(w2.managed)
                /\ last.writes = <<>> => Keys(w2.managed) = Keys(m)

\* C23 witness: a task-manager run that a first cleanup() stamped at time 0
\* is signalled by the cleanup() at time 2, and its handle stays in the pool
C23_Witness ==
    /\ Signalled # {} /\ now = task_manager_timeout + 1
    /\ \E i \in DOMAIN workers :
          /\ workers[i].pid \in Signalled /\ workers[i].alive
          /\ workers[i].running.id = TaskM.id
          /\ Len(workers[i].managed) = 1
          /\ workers[i].managed[1].body.started = 0
          /\ workers[i].managed[1].body.age = task_manager_timeout + 1

\* C24: in every state reachable by init_workers, write(), up(), cleanup()
\* with its redelivery and the workers' own steps, len(workers) <=
\* max_workers and max_workers >= min_workers; no step changes max_workers.
C24_CeilingNeverExceeded ==
    /\ [](Len(workers) <= max_workers /\ max_workers >= min_workers)
    /\ [][max_workers' = max_workers]_vars

\* C24 witness: a pool constructed with max_workers=1 below min_workers=2,
\* at its ceiling of 2 after dead handles were replaced, takes a write()
\* that finds every handle busy and creates no handle
C24_Witness ==
    /\ min_workers = 2 /\ max_workers = 2 /\ last.op = "write"
    /\ Len(PreW) = 2 /\ AllBusy(PreW) /\ Len(workers) = 2
    /\ scale_up_ct > 2 /\ scale_up_ct = last.pre.scale_up_ct

\* the puts of the returned write() that failed on a full inbound queue
FailedPuts ==
    IF AutoscaleWriteCall /\ Len(last.writes) = 1
    THEN {j \in DOMAIN last.writes[1].attempts : ~last.writes[1].attempts[j].ok}
    ELSE {}

\* C25 (as claimed): a put() that fails because the inbound queue stayed
\* full leaves the handle's managed_tasks without any id it did not have
\* and its messages_sent as it was, so after write() has tried several
\* handles the message's id is in managed_tasks of no handle that was
\* passed over as full.
C25_FailedPutLeavesNoTrace ==
    \A j \in FailedPuts :
        LET p == PreOf(last.writes[1].attempts[j].pid)
            w == workers[IdxOf(workers, p.pid)]
        IN /\ Keys(w.managed) \subseteq Keys(p.managed)
           /\ w.messages_sent = p.messages_sent

\* the handles whose put succeeded in the returned write()
TookBody ==
    IF AutoscaleWriteCall /\ Len(last.writes) = 1
    THEN {IdxOf(workers, last.writes[1].attempts[j].pid) :
             j \in {k \in DOMAIN last.writes[1].attempts : last.writes[1].attempts[k].ok}}
    ELSE {}
\* the inbound queue of handle i as the write() found it
QueueBefore(i) ==
    IF workers[i].pid \in Pids(PreW) THEN PreOf(workers[i].pid).queue ELSE <<>>

\* C26 (as claimed): AutoscalePool.write enqueues a message on a handle
\* whose process is not alive only when no handle with a live process has
\* room in its inbound queue.
C26_NoWriteToDeadHandle ==
    \A r \in TookBody :
        ~workers[r].alive =>
            ~\E i \in DOMAIN workers :
                 workers[i].alive /\ Len(QueueBefore(i)) < queue_size

\* C27 (as claimed): a message assigned to a dead handle is recovered by
\* one path only: the message that cleanup() reports failed to the job
\* store, as the handle's current task, is not also among the messages it
\* takes from the handle's inbound queue to redeliver.
C27_OneRecoveryPath ==
    (last.op = "cleanup" /\ ~last.resumed) =>
        \A k \in DOMAIN last.recovered :
            LET r == last.recovered[k]
                w == PreOf(r.pid)
            IN (IsDict(r.task) /\ r.task.uuid \in Range(last.reaps)) =>
                  \A q \in DOMAIN r.orphans :
                      ~(r.orphans[q] \in Range(w.queue) /\ r.orphans[q].uuid = r.task.uuid)

\* C28 (as claimed): a handle that cleanup() scales down (sends QUIT and
\* removes) has no message in its inbound queue and executes none.
C28_ScaleDownDiscardsNothing ==
    (last.op = "cleanup" /\ ~last.resumed) =>
        \A k \in DOMAIN last.scaled :
            LET w == PreOf(last.scaled[k].pid)
            IN w.queue = <<>> /\ w.running = NoTask

\* the handles that the cleanup() which just ran through in one go removed
RemovedNow ==
    IF last.op = "cleanup" /\ ~last.resumed THEN Pids(PreW) \ Pids(workers) ELSE {}

\* C29: every handle that a cleanup() pass removes was, when the pass
\* examined it, not alive, or idle with len(workers) > min_workers: a handle
\* that is alive and busy stays.  A removed handle is not in the pool when
\* the pass returns, gets none of the messages the pass redelivers, and a
\* handle that appears in the pool is always a new one.
C29_OnlyDeadOrIdleRemoved ==
    /\ \A p \in RemovedNow :
          \/ /\ ~PreOf(p).alive
             /\ \E k \in DOMAIN last.recovered : last.recovered[k].pid = p
          \/ /\ PreOf(p).alive /\ idle(PreOf(p))
             /\ \E k \in DOMAIN last.scaled :
                   last.scaled[k].pid = p /\ last.scaled[k].len > min_workers
    /\ \A p \in RemovedNow : \A k \in DOMAIN last.writes :
          \A j \in DOMAIN last.writes[k].attempts : last.writes[k].attempts[j].pid # p
    /\ last.op \notin {"none", "blocked"} =>
          \A i \in DOMAIN workers :
              workers[i].pid \notin Pids(PreW) => workers[i].pid > last.pre.scale_up_ct

\* C29 witness: a pass over two live handles removes the idle one and keeps
\* the busy one
C29_Witness ==
    /\ Cardinality(RemovedNow) = 1 /\ Len(last.scaled) = 1 /\ Len(PreW) = 2
    /\ Len(workers) = 1 /\ workers[1].alive /\ busy(PreOf(workers[1].pid))
    /\ workers[1].running # NoTask

\* the successful puts that the returned call made on handle p
RECURSIVE OkPuts(_, _)
OkPuts(logs, p) ==
    IF logs = <<>> THEN 0
    ELSE Cardinality({j \in DOMAIN Head(logs).attempts :
                         Head(logs).attempts[j].pid = p /\ Head(logs).attempts[j].ok})
         + OkPuts(Tail(logs), p)
\* the counters of handle p as the returned call found them
SentBefore(p) == IF p \in Pids(PreW) THEN PreOf(p).messages_sent ELSE 0
FinishedBefore(p) == IF p \in Pids(PreW) THEN PreOf(p).messages_finished ELSE 0

\* C30: messages_finished <= messages_sent for every handle in every
\* state; a pool call raises messages_sent of a handle by exactly the
\* number of puts on it that succeeded (a failed put adds nothing) and
\* never lowers messages_finished; no step of the pool or of a worker
\* process lowers either counter of a handle that stays in the pool.
C30_Counters ==
    /\ [](/\ \A i \in DOMAIN workers :
               workers[i].messages_finished <= workers[i].messages_sent
          /\ last.op \notin {"none", "blocked"} =>
                \A i \in DOMAIN workers :
                    LET w == workers[i]
                    IN /\ w.messages_sent = SentBefore(w.pid) + OkPuts(last.writes, w.pid)
                       /\ w.messages_finished >= FinishedBefore(w.pid))
    /\ [][\A i \in DOMAIN workers : \A j \in DOMAIN workers' :
             workers[i].pid = workers'[j].pid =>
                 /\ workers'[j].messages_sent >= workers[i].messages_sent
                 /\ workers'[j].messages_finished >= workers[i].messages_finished]_vars

\* C30 witness: a write() whose first put failed on a full queue and whose
\* second put succeeded
C30_Witness ==
    /\ AutoscaleWriteCall /\ Len(last.writes) = 1 /\ Len(last.writes[1].attempts) = 2
    /\ ~last.writes[1].attempts[1].ok /\ last.writes[1].attempts[2].ok
    /\ LET a == workers[IdxOf(workers, last.writes[1].attempts[1].pid)]
           b == workers[IdxOf(workers, last.writes[1].attempts[2].pid)]
       IN /\ a.messages_sent = SentBefore(a.pid) /\ a.messages_sent > 0
          /\ b.messages_sent = SentBefore(b.pid) + 1 /\ b.messages_sent > 1
====
